---- MODULE Spec2Model ----
(***************************************************************************)
(* webmention.js: client-side rendering of webmentions fetched from        *)
(* webmention.io.                                                          *)
(*                                                                         *)
(* Two revisions of the widget are modelled, selected by `variant`:        *)
(*   "static"  src/static/webmention.js  (getData with then/catch chain,   *)
(*             XMLHttpRequest fallback)                                    *)
(*   "module"  src/unnamed/part_001      (async load listener, try/catch)  *)
(* src/unnamed/part_000, the 2018 revision without merge flag and          *)
(* prevent-spoofing, is not modelled.  Mentions carry url, wm-property and *)
(* wm-source; the optional author, content, name and rsvp are present only *)
(* in the mentions of SpecRender.  Spec runs the whole load listener;      *)
(* SpecApiURL, SpecDedupe, SpecExtract and SpecRender run one part of it   *)
(* over a wider range of inputs.                                           *)
(* Strings are sequences of one-character strings so that indexOf, substr, *)
(* split and replace are computed as the code computes them.  Markup is a  *)
(* sequence of element tokens in document order.                           *)
(***************************************************************************)
EXTENDS Integers, Sequences, FiniteSets, TLC

VARIABLES
    variant,        \* which revision of the script the page embeds
    scriptAttrs,    \* data-* attributes of document.currentScript (flags)
    textAttrs,      \* data-* attributes whose characters matter
    hasContainer,   \* document.getElementById(containerID) finds an element
    hasFetch,       \* window.fetch is defined
    pc,             \* position of the load listener / promise chain
    requests,       \* number of HTTP requests put on the wire
    response,       \* how the outstanding fetch settled
    json,           \* the parsed document handed to the classification
    comments,       \* bucket `comments`
    collects,       \* bucket `collects`
    html,           \* markup accumulated so far
    container,      \* innerHTML of the container element
    writes,         \* number of assignments to container.innerHTML
    log,            \* console.error calls, in order
    escaped,        \* an exception / rejected promise left the load handler
    apiURL,         \* the request URL built by the load listener
    mentions,       \* dedupe: argument
    filtered,       \* dedupe: returned array
    filteredTwice,  \* dedupe: array returned for the returned array
    contentText,    \* extractComment: content.text of the argument
    extracted       \* extractComment: returned string

vars == <<variant, scriptAttrs, textAttrs, hasContainer, hasFetch, pc, requests,
          response, json, comments, collects, html, container, writes, log,
          escaped, apiURL, mentions, filtered, filteredTwice, contentText,
          extracted>>

\* the variables of the specifications that call one function on its own
pureVars == <<mentions, filtered, filteredTwice, contentText, extracted>>

(***************************************************************************)
(* Bounds                                                                  *)
(***************************************************************************)
MaxChildren == 2        \* longest `children` array of an API response
MaxMentions == 3        \* longest argument of dedupe in SpecDedupe
MaxUnreadChildren == 1  \* longest `children` array under an error status
MaxAddUrls == 2         \* most entries of data-add-urls in SpecApiURL
MaxTextLen == 5         \* longest content.text in SpecExtract
MaxRichChildren == 1    \* longest `children` array in SpecRender

(***************************************************************************)
(* JavaScript values and string primitives                                 *)
(***************************************************************************)
Undefined == "undefined"        \* the value undefined (and its property key)
Absent    == "<absent>"         \* getAttribute on a missing attribute: null

Max(a, b) == IF a > b THEN a ELSE b
Min(a, b) == IF a < b THEN a ELSE b

BoundedSeq(S, n) == UNION {[1..k -> S] : k \in 0..n}

\* String.prototype.indexOf(pat): 0-based index of the first match, or -1
indexOf(s, pat) ==
    LET hits == {i \in 0..(Len(s) - Len(pat)) :
                    SubSeq(s, i + 1, i + Len(pat)) = pat}
    IN  IF hits = {} THEN -1
        ELSE CHOOSE i \in hits : \A j \in hits : i <= j

\* String.prototype.substr(start): a negative start counts from the end
substr(s, start) ==
    LET from == IF start < 0 THEN Max(Len(s) + start, 0) ELSE Min(start, Len(s))
    IN  SubSeq(s, from + 1, Len(s))

\* String.prototype.split(sep) for a one-character separator
RECURSIVE split(_, _)
split(s, sep) ==
    LET i == indexOf(s, <<sep>>)
    IN  IF i = -1 THEN <<s>>
        ELSE <<SubSeq(s, 1, i)>> \o split(SubSeq(s, i + 2, Len(s)), sep)

\* the number a string of decimal digits converts to
Digits == <<"0", "1", "2", "3", "4", "5", "6", "7", "8", "9">>

RECURSIVE ToNumber(_)
ToNumber(s) ==
    IF s = <<>> THEN 0
    ELSE 10 * ToNumber(SubSeq(s, 1, Len(s) - 1))
         + (CHOOSE d \in 0..9 : Digits[d + 1] = s[Len(s)])

\* Array.prototype.join(sep) on an array of strings
RECURSIVE join(_, _)
join(parts, sep) ==
    IF parts = <<>> THEN <<>>
    ELSE IF Len(parts) = 1 THEN parts[1]
    ELSE parts[1] \o <<sep>> \o join(Tail(parts), sep)

\* String.prototype.replace(/ch/g, rep)
RECURSIVE replaceAll(_, _, _)
replaceAll(s, ch, rep) ==
    IF s = <<>> THEN <<>>
    ELSE (IF Head(s) = ch THEN rep ELSE <<Head(s)>>) \o replaceAll(Tail(s), ch, rep)

(***************************************************************************)
(* Configuration                                                           *)
(***************************************************************************)
AttrValues == {Absent, "", "true"}
ConfigKeys == {"prevent-spoofing", "comments-are-reactions"}

\* getCfg(key, dfl): getAttribute("data-" + key) || dfl
getCfg(key, dfl) ==
    IF scriptAttrs[key] = Absent \/ scriptAttrs[key] = "" THEN dfl
    ELSE scriptAttrs[key]

\* JavaScript truthiness of a value produced by getCfg
Truthy(v) == v # Undefined /\ v # ""

mentionSource_Swapped ==
    IF Truthy(getCfg("prevent-spoofing", Undefined)) THEN "url" ELSE "wm-source"

mentionSource ==
    IF Truthy(getCfg("prevent-spoofing", Undefined)) THEN "wm-source" ELSE "url"

commentsAreReactions == getCfg("comments-are-reactions", Undefined)

\* the attributes read for their characters: <<>> stands for an attribute
\* that is missing or empty, and for the value undefined
TextKeys == {"page-url", "add-urls", "wordcount", "max-webmentions",
             "sort-by", "sort-dir"}

NoTextAttrs == [k \in TextKeys |-> <<>>]

\* getCfg over textAttrs: getAttribute("data-" + key) || dfl
getCfgText(key, dfl) == IF textAttrs[key] = <<>> THEN dfl ELSE textAttrs[key]

\* window.location.href of the embedding page
LocationHref == <<"h", "t", "t", "p", "s", ":", "/", "/", "h", "/", "p", "#", "x">>

\* .replace(/#.*$/, '')
withoutFragment(href) ==
    LET i == indexOf(href, <<"#">>)
    IN  IF i = -1 THEN href ELSE SubSeq(href, 1, i)

refurl == getCfgText("page-url", withoutFragment(LocationHref))

addurls == getCfgText("add-urls", <<>>)

textMaxWords == getCfgText("wordcount", <<>>)

\* the default is the number 30, which the concatenation prints as "30"
maxWebmentions == getCfgText("max-webmentions", <<"3", "0">>)

sortBy == getCfgText("sort-by", <<"p", "u", "b", "l", "i", "s", "h", "e", "d">>)

sortDir == getCfgText("sort-dir", <<"u", "p">>)

(***************************************************************************)
(* Mentions                                                                *)
(***************************************************************************)
UrlHttpP  == <<"h","t","t","p",":","/","/","h","/","p">>
UrlHttpsP == <<"h","t","t","p","s",":","/","/","h","/","p">>
UrlHttpsQ == <<"h","t","t","p","s",":","/","/","h","/","q">>
UrlDouble == <<"h","t","t","p",":","/","/","h","/","/","p">>

CommentTypes  == {"in-reply-to", "mention-of", "rsvp"}
ReactionTypes == {"like-of", "repost-of", "bookmark-of", "follow-of"}
\* a wm-property the taxonomy does not know, and one that names a member of
\* Object.prototype
OtherTypes    == {Undefined, "unknown", "constructor"}
WmProperties  == CommentTypes \cup ReactionTypes \cup OtherTypes

\* the aggregator's record of where the mention came from
WmSourceOf(url) == <<"h","t","t","p","s",":","/","/","b","/">> \o <<url[Len(url)]>>

Mention(url, prop) ==
    [url |-> url, wmProperty |-> prop, wmSource |-> WmSourceOf(url)]

\* r[mentionSource]
Field(r, key) == IF key = "wm-source" THEN r.wmSource ELSE r.url

MentionPool ==
    {Mention(UrlHttpP, p) : p \in WmProperties}
    \cup {Mention(u, p) : u \in {UrlHttpsP, UrlHttpsQ}, p \in {"in-reply-to", "like-of"}}

DedupePool ==
    {Mention(u, p) : u \in {UrlHttpP, UrlHttpsP, UrlHttpsQ, UrlDouble},
                     p \in {"in-reply-to", "like-of"}}

(***************************************************************************)
(* stripurl / dedupe                                                       *)
(***************************************************************************)
stripurl(url) == substr(url, indexOf(url, <<"/","/">>))

\* a duplicate is dropped and its key forgotten
RECURSIVE dedupeFrom_ForgetSeen(_, _, _)
dedupeFrom_ForgetSeen(ms, seen, acc) ==
    IF ms = <<>> THEN acc
    ELSE LET source == stripurl(Head(ms).url)
         IN  IF source \notin seen
             THEN dedupeFrom_ForgetSeen(Tail(ms), seen \cup {source}, Append(acc, Head(ms)))
             ELSE dedupeFrom_ForgetSeen(Tail(ms), seen \ {source}, acc)

\* the forEach of dedupe: `seen` holds the keys met so far
RECURSIVE dedupeFrom(_, _, _)
dedupeFrom(ms, seen, acc) ==
    IF ms = <<>> THEN acc
    ELSE LET source == stripurl(Head(ms).url)
         IN  IF source \notin seen
             THEN dedupeFrom(Tail(ms), seen \cup {source}, Append(acc, Head(ms)))
             ELSE dedupeFrom(Tail(ms), seen, acc)

dedupe_KeepLast(ms) ==
    LET keep == {i \in 1..Len(ms) :
                    \A j \in (i + 1)..Len(ms) : stripurl(ms[j].url) # stripurl(ms[i].url)}
        RECURSIVE pick(_)
        pick(i) == IF i > Len(ms) THEN <<>>
                   ELSE (IF i \in keep THEN <<ms[i]>> ELSE <<>>) \o pick(i + 1)
    IN  pick(1)

dedupe(ms) == dedupeFrom(ms, {}, <<>>)

(***************************************************************************)
(* The request URL                                                         *)
(***************************************************************************)
\* encodeURIComponent on one character: the reserved characters that occur
\* in the configured URLs become %XX, letters and digits stay
PercentCode(c) ==
    CASE c = ":" -> <<"%","3","A">>
      [] c = "/" -> <<"%","2","F">>
      [] c = "?" -> <<"%","3","F">>
      [] c = "&" -> <<"%","2","6">>
      [] c = "=" -> <<"%","3","D">>
      [] c = "#" -> <<"%","2","3">>
      [] c = "|" -> <<"%","7","C">>
      [] c = "%" -> <<"%","2","5">>
      [] c = " " -> <<"%","2","0">>
      [] OTHER   -> <<c>>

RECURSIVE encodeURIComponent(_)
encodeURIComponent(s) ==
    IF s = <<>> THEN <<>>
    ELSE PercentCode(Head(s)) \o encodeURIComponent(Tail(s))

\* pages = [stripurl(refurl)], then stripurl of every add-urls entry
pages_Unstripped ==
    <<refurl>> \o (IF addurls # <<>> THEN split(addurls, "|") ELSE <<>>)

pages ==
    <<stripurl(refurl)>> \o
    (IF addurls # <<>>
     THEN LET urls == split(addurls, "|")
          IN  [i \in 1..Len(urls) |-> stripurl(urls[i])]
     ELSE <<>>)

ApiBase == <<"h", "t", "t", "p", "s", ":", "/", "/", "w", "e", "b", "m", "e", "n", "t", "i", "o", "n", ".", "i", "o", "/", "a", "p", "i", "/", "m", "e", "n", "t", "i", "o", "n", "s", ".", "j", "f", "2", "?", "p", "e", "r", "-", "p", "a", "g", "e", "=">>

\* the body of pages.forEach
targetParams(path) ==
    <<"&", "t", "a", "r", "g", "e", "t", "[", "]", "=">> \o encodeURIComponent(<<"h", "t", "t", "p", ":">> \o path)
    \o <<"&", "t", "a", "r", "g", "e", "t", "[", "]", "=">> \o encodeURIComponent(<<"h", "t", "t", "p", "s", ":">> \o path)

RECURSIVE appendTargets(_, _)
appendTargets(url, ps) ==
    IF ps = <<>> THEN url
    ELSE appendTargets(url \o targetParams(Head(ps)), Tail(ps))

buildApiURL ==
    appendTargets(ApiBase \o maxWebmentions
                  \o <<"&", "s", "o", "r", "t", "-", "b", "y", "=">> \o sortBy
                  \o <<"&", "s", "o", "r", "t", "-", "d", "i", "r", "=">> \o sortDir, pages)

(***************************************************************************)
(* Markup                                                                  *)
(***************************************************************************)
reactTitle == [p \in CommentTypes \cup ReactionTypes |->
    CASE p = "in-reply-to" -> "replied"
      [] p = "like-of"     -> "liked"
      [] p = "repost-of"   -> "reposted"
      [] p = "bookmark-of" -> "bookmarked"
      [] p = "mention-of"  -> "mentioned"
      [] p = "rsvp"        -> "RSVPed"
      [] p = "follow-of"   -> "followed"]

reactEmoji == [p \in CommentTypes \cup ReactionTypes |->
    CASE p = "in-reply-to" -> "speech"
      [] p = "like-of"     -> "heart"
      [] p = "repost-of"   -> "repeat"
      [] p = "bookmark-of" -> "star"
      [] p = "mention-of"  -> "speech"
      [] p = "rsvp"        -> "calendar"
      [] p = "follow-of"   -> "ant"]

\* obj[key] || dfl on one of the two tables above
Lookup(table, key, dfl) == IF key \in DOMAIN table THEN table[key] ELSE dfl

entities(text) ==
    replaceAll(replaceAll(replaceAll(replaceAll(text,
        "&", <<"&","a","m","p",";">>),
        "<", <<"&","l","t",";">>),
        ">", <<"&","g","t",";">>),
        "\"", <<"&","q","u","o","t",";">>)

\* the characters /\s/ matches, of those that occur in the texts
IsSpace(c) == c \in {" ", "\t", "\n"}

RECURSIVE skipSpaces(_)
skipSpaces(s) ==
    IF s # <<>> /\ IsSpace(Head(s)) THEN skipSpaces(Tail(s)) ELSE s

\* text.replace(/\s/g, ' ')
RECURSIVE collapseSpaces_Each(_)
collapseSpaces_Each(s) ==
    IF s = <<>> THEN <<>>
    ELSE <<IF IsSpace(Head(s)) THEN " " ELSE Head(s)>> \o collapseSpaces_Each(Tail(s))

\* text.replace(/\s+/g, ' ')
RECURSIVE collapseSpaces(_)
collapseSpaces(s) ==
    IF s = <<>> THEN <<>>
    ELSE IF IsSpace(Head(s)) THEN <<" ">> \o collapseSpaces(skipSpaces(Tail(s)))
    ELSE <<Head(s)>> \o collapseSpaces(Tail(s))

\* String.prototype.split(sep, limit)
splitLimit(s, sep, limit) ==
    LET all == split(s, sep) IN SubSeq(all, 1, Min(limit, Len(all)))

Hellip == <<"&", "h", "e", "l", "l", "i", "p", ";">>

\* extractComment(c).  textMaxWords is a string: `textMaxWords + 1` appends
\* the character "1", the comparison, the index and slice convert to a number
extractComment(c) ==
    LET escapedText == entities(c.content.text)
    IN  IF textMaxWords # <<>>
        THEN LET n     == ToNumber(textMaxWords)
                 words == splitLimit(collapseSpaces(escapedText), " ",
                                     ToNumber(textMaxWords \o <<"1">>))
             IN  IF Len(words) > n
                 THEN IF n = 0 THEN <<>>
                      ELSE join(SubSeq([words EXCEPT ![n] = @ \o Hellip], 1, n), " ")
                 ELSE escapedText
        ELSE escapedText

\* one element (or closing tag) of the markup, in document order
Element(tag, class, href, who, text, emoji, body, src, sub) ==
    [tag |-> tag, class |-> class, href |-> href, who |-> who, text |-> text,
     emoji |-> emoji, body |-> body, src |-> src, sub |-> sub]

\* an element without mention-supplied text, photo and rsvp
Tok(tag, class, href, who, text, emoji) ==
    Element(tag, class, href, who, text, emoji, <<>>, <<>>, "")

\* the optional properties of a mention: <<>> (falsy) when missing or empty
AuthorName(r)  == IF "author" \in DOMAIN r THEN r.author.name ELSE <<>>
AuthorPhoto(r) == IF "author" \in DOMAIN r THEN r.author.photo ELSE <<>>
Name(r)        == IF "name" \in DOMAIN r THEN r.name ELSE <<>>
ContentText(r) == IF "content" \in DOMAIN r THEN r.content.text ELSE <<>>
Rsvp(r)        == IF "rsvp" \in DOMAIN r THEN r.rsvp ELSE Undefined

rsvpEmoji == [v \in {"yes", "no", "interested", "maybe"} |->
    CASE v = "yes"        -> "check"
      [] v = "no"         -> "cross"
      [] v = "interested" -> "bulb"
      [] v = "maybe"      -> "thought"]

\* url.split('/')[2]
hostname(url) == split(url, "/")[3]

\* entities(author.name, or the host of the url)
whoOf(r) ==
    entities(IF AuthorName(r) # <<>> THEN AuthorName(r) ELSE hostname(r.url))

\* reactImage(r, isComment): the <a class="reaction"> element.  `who` and
\* `text` make up its title, `body` is the comment text the title goes on
\* with after ": ", `src` the photo of the <img> inside, `sub` the rsvp mark
reactImage(r, isComment) ==
    Element("a", "reaction", Field(r, mentionSource), whoOf(r),
            Lookup(reactTitle, r.wmProperty, "reacted"),
            Lookup(reactEmoji, r.wmProperty, "boom"),
            IF ~isComment /\ ContentText(r) # <<>> THEN extractComment(r) ELSE <<>>,
            IF AuthorPhoto(r) # <<>> THEN entities(AuthorPhoto(r)) ELSE <<>>,
            Lookup(rsvpEmoji, Rsvp(r), ""))

\* <span class=linkclass>linktext</span>
linkSpan(c) ==
    IF Name(c) # <<>>
    THEN Element("span", "name", <<>>, <<>>, "", "", Name(c), <<>>, "")
    ELSE IF ContentText(c) # <<>>
    THEN Element("span", "text", <<>>, <<>>, "", "", extractComment(c), <<>>, "")
    ELSE Tok("span", "name", <<>>, <<>>, "(mention)", "")

RECURSIVE commentItems(_)
commentItems(cs) ==
    IF cs = <<>> THEN <<>>
    ELSE LET c == Head(cs)
         IN  << Tok("li", "", <<>>, <<>>, "", ""),
                reactImage(c, TRUE),
                Tok("a", "source", Field(c, mentionSource), whoOf(c), "", ""),
                linkSpan(c),
                Tok("/li", "", <<>>, <<>>, "", "") >>
             \o commentItems(Tail(cs))

formatComments(cs) ==
    << Tok("h2", "", <<>>, <<>>, "Responses", ""),
       Tok("ul", "comments", <<>>, <<>>, "", "") >>
    \o commentItems(cs)
    \o << Tok("/ul", "", <<>>, <<>>, "", "") >>

\* static/webmention.js returns without closing the list; part_001 closes it
formatReactions(rs) ==
    << Tok("h2", "", <<>>, <<>>, "Reactions", ""),
       Tok("ul", "reacts", <<>>, <<>>, "", "") >>
    \o [i \in 1..Len(rs) |-> reactImage(rs[i], FALSE)]
    \o (IF variant = "module" THEN << Tok("/ul", "", <<>>, <<>>, "", "") >> ELSE <<>>)

(***************************************************************************)
(* Classification                                                          *)
(***************************************************************************)
\* mapping[c['wm-property']]: the bucket, undefined, or (for a key inherited
\* from Object.prototype) a truthy value that has no push method
mapping(prop) ==
    CASE prop \in {"in-reply-to", "mention-of", "rsvp"}     -> "comments"
      [] prop \in {"like-of", "repost-of", "bookmark-of"}   -> "collects"
      [] prop = "follow-of" -> IF variant = "module" THEN "collects" ELSE Undefined
      [] prop = "constructor"                               -> "Object"
      [] OTHER                                              -> Undefined

\* `if (commentsAreReactions) comments = collects`: one array under two names
Aliased == Truthy(commentsAreReactions)

\* json.children.forEach(...): buckets after the loop, and whether
\* store.push threw; with the buckets aliased a push reaches both names
RECURSIVE classify(_, _, _)
classify(children, cm, cl) ==
    IF children = <<>> THEN [comments |-> cm, collects |-> cl, threw |-> FALSE]
    ELSE LET c == Head(children)
             store == mapping(c.wmProperty)
         IN  CASE store = Undefined -> classify(Tail(children), cm, cl)
               [] store = "Object"  -> [comments |-> cm, collects |-> cl, threw |-> TRUE]
               [] store = "collects" \/ Aliased ->
                      classify(Tail(children),
                               IF Aliased THEN Append(cl, c) ELSE cm,
                               Append(cl, c))
               [] OTHER -> classify(Tail(children), Append(cm, c), cl)

(***************************************************************************)
(* The load listener                                                       *)
(***************************************************************************)
OriginalContent == << Tok("p", "fallback", <<>>, <<>>, "static content", "") >>
NoElement       == << Tok("null", "", <<>>, <<>>, "", "") >>

\* `let json = {}` (part_001:399): an object without a children member
EmptyJson_WithChildren == [hasChildren |-> TRUE, children |-> <<>>]

EmptyJson == [hasChildren |-> FALSE, children |-> <<>>]

StatusPool == {200, 299, 300, 404}

NoResponse == [kind |-> "none", status |-> 0, valid |-> FALSE, json |-> EmptyJson]

JsonDocs(n) ==
    {EmptyJson} \cup
    {[hasChildren |-> TRUE, children |-> c] : c \in BoundedSeq(MentionPool, n)}

\* a rejected fetch, or a status line with a body that is or is not JSON; the
\* body of an error status is never read and is kept short
Responses ==
    {[kind |-> "error", status |-> 0, valid |-> FALSE, json |-> EmptyJson]}
    \cup {[kind |-> "http", status |-> s, valid |-> FALSE, json |-> EmptyJson] :
             s \in StatusPool}
    \cup {[kind |-> "http", status |-> s, valid |-> TRUE, json |-> j] :
             s \in {200, 299}, j \in JsonDocs(MaxChildren)}
    \cup {[kind |-> "http", status |-> s, valid |-> TRUE, json |-> j] :
             s \in {300, 404}, j \in JsonDocs(MaxUnreadChildren)}

StatusOk(status) == status >= 200 /\ status < 300

\* the text attributes of the pages the pipeline is run on
PageAttrs ==
    {[NoTextAttrs EXCEPT !["max-webmentions"] = m] : m \in {<<>>, <<"1">>}}

Init ==
    /\ variant \in {"static", "module"}
    /\ scriptAttrs \in [ConfigKeys -> AttrValues]
    /\ textAttrs \in PageAttrs
    /\ hasContainer \in BOOLEAN
    /\ hasFetch \in BOOLEAN
    /\ pc = "load"
    /\ requests = 0
    /\ response = NoResponse
    /\ json = EmptyJson
    /\ comments = <<>>
    /\ collects = <<>>
    /\ html = <<>>
    /\ container = IF hasContainer THEN OriginalContent ELSE NoElement
    /\ writes = 0
    /\ log = <<>>
    /\ escaped = FALSE
    /\ apiURL = <<>>
    /\ mentions = <<>>
    /\ filtered = <<>>
    /\ filteredTwice = <<>>
    /\ contentText = <<>>
    /\ extracted = <<>>

config == <<variant, scriptAttrs, textAttrs, hasContainer, hasFetch>>

\* `if (!container) return`
ContainerMissing_Ignored == FALSE

ContainerMissing == ~hasContainer

\* the load event with no container: nothing happens
LoadNoContainer ==
    /\ pc = "load"
    /\ ContainerMissing
    /\ pc' = "done"
    /\ UNCHANGED <<config, requests, response, json, comments, collects, html,
                   container, writes, log, escaped, apiURL, pureVars>>

\* the load event, window.fetch defined: the request goes out
LoadFetch ==
    /\ pc = "load"
    /\ ~ContainerMissing
    /\ hasFetch
    /\ apiURL' = buildApiURL
    /\ requests' = requests + 1
    /\ pc' = "fetching"
    /\ UNCHANGED <<config, response, json, comments, collects, html, container,
                   writes, log, escaped, pureVars>>

\* the load event, window.fetch undefined.  static: getData builds an
\* XMLHttpRequest and sets its handlers, and never opens or sends it.
\* module: calling window.fetch throws inside the try block; the catch logs
\* and the listener goes on with json = {}
LoadNoFetch ==
    /\ pc = "load"
    /\ ~ContainerMissing
    /\ ~hasFetch
    /\ IF variant = "static"
       THEN /\ pc' = "done"
            /\ UNCHANGED log
       ELSE /\ pc' = "classify"
            /\ log' = Append(log, "Request failed")
    /\ apiURL' = buildApiURL
    /\ UNCHANGED <<config, requests, response, json, comments, collects, html,
                   container, writes, escaped, pureVars>>

\* the network: the fetch promise settles
Settle ==
    /\ pc = "fetching"
    /\ response' \in Responses
    /\ pc' = "settled"
    /\ UNCHANGED <<config, requests, json, comments, collects, html, container,
                   writes, log, escaped, apiURL, pureVars>>

\* the request failed: rejected fetch, status outside 2xx, or body not JSON
RequestFailed ==
    \/ response.kind = "error"
    \/ response.kind = "http" /\ (~StatusOk(response.status) \/ ~response.valid)

\* the handlers of the settled promise.  static: status check, json(), and
\* the catch at the end of the chain.  module: the try block and its catch,
\* after which the listener continues with whatever json holds
HandleResponse ==
    /\ pc = "settled"
    /\ IF ~RequestFailed
       THEN /\ json' = response.json
            /\ pc' = "classify"
            /\ UNCHANGED log
       ELSE /\ json' = EmptyJson
            /\ log' = Append(log,
                 IF variant = "module" /\ response.kind = "http"
                                       /\ ~StatusOk(response.status)
                 THEN "Could not parse response" ELSE "Request failed")
            /\ pc' = IF variant = "static" THEN "done" ELSE "classify"
    /\ UNCHANGED <<config, requests, response, comments, collects, html, container,
                   writes, escaped, apiURL, pureVars>>

\* a TypeError thrown while the buckets are filled.  static: the callback runs
\* inside the promise chain, whose catch logs it.  module: it rejects the
\* promise the async listener returned, and nothing handles that
Throw ==
    /\ pc' = "done"
    /\ IF variant = "static"
       THEN log' = Append(log, "Request failed") /\ UNCHANGED escaped
       ELSE escaped' = TRUE /\ UNCHANGED log

\* the buckets are created and json.children.forEach runs
Classify ==
    /\ pc = "classify"
    /\ IF ~json.hasChildren
       THEN Throw /\ UNCHANGED <<comments, collects>>
       ELSE LET r == classify(json.children, <<>>, <<>>)
            IN  /\ comments' = r.comments
                /\ collects' = r.collects
                /\ IF r.threw THEN Throw
                   ELSE pc' = "comments" /\ UNCHANGED <<log, escaped>>
    /\ UNCHANGED <<config, requests, response, json, html, container, writes,
                   apiURL, pureVars>>

\* `comments.length > 0 && comments !== collects`
RenderComments == Len(comments) > 0 /\ ~Aliased

\* `collects.length > 0`
RenderReactions_Always == TRUE

RenderReactions == Len(collects) > 0

\* format the comment-type things
FormatComments_Incremental ==
    /\ pc = "comments"
    /\ html' = IF RenderComments THEN html \o formatComments(dedupe(comments)) ELSE html
    /\ container' = html'
    /\ writes' = writes + 1
    /\ pc' = "reactions"
    /\ UNCHANGED <<config, requests, response, json, comments, collects,
                   log, escaped, apiURL, pureVars>>

FormatComments ==
    /\ pc = "comments"
    /\ html' = IF RenderComments THEN html \o formatComments(dedupe(comments)) ELSE html
    /\ pc' = "reactions"
    /\ UNCHANGED <<config, requests, response, json, comments, collects, container,
                   writes, log, escaped, apiURL, pureVars>>

\* format the other reactions
FormatReactions ==
    /\ pc = "reactions"
    /\ html' = IF RenderReactions THEN html \o formatReactions(dedupe(collects)) ELSE html
    /\ pc' = "write"
    /\ UNCHANGED <<config, requests, response, json, comments, collects, container,
                   writes, log, escaped, apiURL, pureVars>>

\* container.innerHTML = html
WriteContainer ==
    /\ pc = "write"
    /\ container' = html
    /\ writes' = writes + 1
    /\ pc' = "done"
    /\ UNCHANGED <<config, requests, response, json, comments, collects, html,
                   log, escaped, apiURL, pureVars>>

Next ==
    \/ LoadNoContainer
    \/ LoadFetch
    \/ LoadNoFetch
    \/ Settle
    \/ HandleResponse
    \/ Classify
    \/ FormatComments
    \/ FormatReactions
    \/ WriteContainer

Spec == Init /\ [][Next]_vars

(***************************************************************************)
(* The request URL on its own: the load event under every configuration of *)
(* page-url, add-urls, max-webmentions, sort-by and sort-dir               *)
(***************************************************************************)
UrlQuery == <<"h", "t", "t", "p", ":", "/", "/", "h", "/", "?", "a", "&", "b">>

PageUrlPool == {UrlHttpP, UrlHttpsQ, UrlQuery}

AddUrlsPool(n) ==
    {<<>>} \cup {join(us, "|") : us \in BoundedSeq(PageUrlPool, n) \ {<<>>}}

UrlAttrs ==
    {[k \in TextKeys |->
        CASE k = "page-url"        -> p
          [] k = "add-urls"        -> a
          [] k = "max-webmentions" -> m
          [] k = "sort-by"         -> sb
          [] k = "sort-dir"        -> sd
          [] OTHER                 -> <<>>] :
        p \in {<<>>} \cup PageUrlPool, a \in AddUrlsPool(MaxAddUrls),
        m \in {<<>>, <<"1">>}, sb \in {<<>>, <<"r", "s", "v", "p">>}, sd \in {<<>>, <<"d", "o", "w", "n">>}}

InitApiURL ==
    /\ variant \in {"static", "module"}
    /\ scriptAttrs = [k \in ConfigKeys |-> Absent]
    /\ textAttrs \in UrlAttrs
    /\ hasContainer \in BOOLEAN
    /\ hasFetch \in BOOLEAN
    /\ pc = "load"
    /\ requests = 0
    /\ response = NoResponse
    /\ json = EmptyJson
    /\ comments = <<>>
    /\ collects = <<>>
    /\ html = <<>>
    /\ container = IF hasContainer THEN OriginalContent ELSE NoElement
    /\ writes = 0
    /\ log = <<>>
    /\ escaped = FALSE
    /\ apiURL = <<>>
    /\ mentions = <<>>
    /\ filtered = <<>>
    /\ filteredTwice = <<>>
    /\ contentText = <<>>
    /\ extracted = <<>>

NextApiURL ==
    \/ LoadNoContainer
    \/ LoadFetch
    \/ LoadNoFetch

SpecApiURL == InitApiURL /\ [][NextApiURL]_vars

(***************************************************************************)
(* dedupe on its own: every argument up to MaxMentions mentions            *)
(***************************************************************************)
InitDedupe ==
    /\ variant = "static"
    /\ scriptAttrs = [k \in ConfigKeys |-> Absent]
    /\ textAttrs = NoTextAttrs
    /\ hasContainer = FALSE
    /\ hasFetch = FALSE
    /\ pc = "call"
    /\ requests = 0
    /\ response = NoResponse
    /\ json = EmptyJson
    /\ comments = <<>>
    /\ collects = <<>>
    /\ html = <<>>
    /\ container = NoElement
    /\ writes = 0
    /\ log = <<>>
    /\ escaped = FALSE
    /\ apiURL = <<>>
    /\ mentions \in BoundedSeq(DedupePool, MaxMentions)
    /\ filtered = <<>>
    /\ filteredTwice = <<>>
    /\ contentText = <<>>
    /\ extracted = <<>>

\* filtered = dedupe(mentions); the argument is only read
DedupeCall ==
    /\ pc = "call"
    /\ filtered' = dedupe(mentions)
    /\ pc' = "return"
    /\ UNCHANGED <<config, requests, response, json, comments, collects, html,
                   container, writes, log, escaped, apiURL, mentions,
                   filteredTwice, contentText, extracted>>

\* filteredTwice = dedupe(filtered)
DedupeAgain ==
    /\ pc = "return"
    /\ filteredTwice' = dedupe(filtered)
    /\ pc' = "returnTwice"
    /\ UNCHANGED <<config, requests, response, json, comments, collects, html,
                   container, writes, log, escaped, apiURL, mentions, filtered,
                   contentText, extracted>>

NextDedupe ==
    \/ DedupeCall
    \/ DedupeAgain

SpecDedupe == InitDedupe /\ [][NextDedupe]_vars

(***************************************************************************)
(* extractComment on its own: every short text over letters, markup        *)
(* characters and white space, and the text of the documented scenario     *)
(***************************************************************************)
ExampleText == <<"o", "n", "e", " ", "t", "w", "o", " ", "t", "h", "r", "e", "e", " ", "f", "o", "u", "r", " ", "f", "i", "v", "e">>

TextChars == {"a", "&", " ", "\t"}

WordCounts == {<<>>, <<"0">>, <<"1">>, <<"2">>, <<"3">>}

InitExtract ==
    /\ variant \in {"static", "module"}
    /\ scriptAttrs = [k \in ConfigKeys |-> Absent]
    /\ textAttrs \in {[NoTextAttrs EXCEPT !["wordcount"] = w] : w \in WordCounts}
    /\ hasContainer = FALSE
    /\ hasFetch = FALSE
    /\ pc = "call"
    /\ requests = 0
    /\ response = NoResponse
    /\ json = EmptyJson
    /\ comments = <<>>
    /\ collects = <<>>
    /\ html = <<>>
    /\ container = NoElement
    /\ writes = 0
    /\ log = <<>>
    /\ escaped = FALSE
    /\ apiURL = <<>>
    /\ mentions = <<>>
    /\ filtered = <<>>
    /\ filteredTwice = <<>>
    /\ contentText \in BoundedSeq(TextChars, MaxTextLen) \cup {ExampleText}
    /\ extracted = <<>>

\* extracted = extractComment(c) for a mention c whose content.text is
\* contentText
ExtractCall ==
    /\ pc = "call"
    /\ extracted' = extractComment([content |-> [text |-> contentText]])
    /\ pc' = "return"
    /\ UNCHANGED <<config, requests, response, json, comments, collects, html,
                   container, writes, log, escaped, apiURL, mentions, filtered,
                   filteredTwice, contentText>>

NextExtract == ExtractCall

SpecExtract == InitExtract /\ [][NextExtract]_vars

(***************************************************************************)
(* Rendering on its own: the listener from the parsed document on, for     *)
(* mentions that carry the optional properties and markup characters       *)
(***************************************************************************)
UrlMarkup    == <<"h", "t", "t", "p", ":", "/", "/", "<", "&", "/", "\"", ">">>
SourceMarkup == <<"h", "t", "t", "p", "s", ":", "/", "/", "b", "/", "\"">>
NameMarkup   == <<"<", "\"">>
PhotoMarkup  == <<"p", "\"">>
TitleMarkup  == <<"\"", "n", "<">>
TextMarkup   == <<"a", " ", "<", "b", " ", "c">>

\* the optional properties a mention may carry
OptionalProperties ==
    { "author" :> [name |-> NameMarkup, photo |-> PhotoMarkup],
      "name" :> TitleMarkup,
      "content" :> [text |-> TextMarkup],
      "rsvp" :> "yes" }

RECURSIVE withProperties(_, _)
withProperties(r, props) ==
    IF props = {} THEN r
    ELSE LET prop == CHOOSE x \in props : TRUE
         IN  withProperties(r @@ prop, props \ {prop})

RichPool ==
    {withProperties([url |-> UrlMarkup, wmProperty |-> p, wmSource |-> SourceMarkup],
                    props) :
        p \in {"in-reply-to", "like-of"}, props \in SUBSET OptionalProperties}

InitRender ==
    /\ variant \in {"static", "module"}
    /\ scriptAttrs \in [ConfigKeys -> AttrValues]
    /\ textAttrs \in {[NoTextAttrs EXCEPT !["wordcount"] = w] : w \in {<<>>, <<"2">>}}
    /\ hasContainer = TRUE
    /\ hasFetch = TRUE
    /\ pc = "classify"
    /\ requests = 1
    /\ json \in {[hasChildren |-> TRUE, children |-> c] :
                    c \in BoundedSeq(RichPool, MaxRichChildren)}
    /\ response = [kind |-> "http", status |-> 200, valid |-> TRUE, json |-> json]
    /\ comments = <<>>
    /\ collects = <<>>
    /\ html = <<>>
    /\ container = OriginalContent
    /\ writes = 0
    /\ log = <<>>
    /\ escaped = FALSE
    /\ apiURL = buildApiURL
    /\ mentions = <<>>
    /\ filtered = <<>>
    /\ filteredTwice = <<>>
    /\ contentText = <<>>
    /\ extracted = <<>>

NextRender ==
    \/ Classify
    \/ FormatComments
    \/ FormatReactions
    \/ WriteContainer

SpecRender == InitRender /\ [][NextRender]_vars

(***************************************************************************)
(* Properties                                                              *)
(***************************************************************************)
\* the forEach over json.children has run to its end
ClassifyDone == pc \in {"comments", "reactions", "write"} \/ writes > 0

\* container.innerHTML has been assigned
Written == writes > 0

OfType(children, types) ==
    SelectSeq(children, LAMBDA c : c.wmProperty \in types)

\* C1: with the merge flag unset, after classification the comments bucket is
\* exactly the in-reply-to / mention-of / rsvp mentions of the response and
\* the reactions bucket exactly its like-of / repost-of / bookmark-of /
\* follow-of mentions, each in API order; nothing else is in either bucket.
C1_Partition ==
    (ClassifyDone /\ ~Aliased) =>
        /\ comments = OfType(json.children, CommentTypes)
        /\ collects = OfType(json.children, ReactionTypes)

\* the deduplication key of the claims: the url without its scheme, i.e.
\* what follows the first colon
SchemeLess(url) ==
    LET colon == CHOOSE i \in 1..Len(url) :
                    url[i] = ":" /\ \A j \in 1..(i - 1) : url[j] # ":"
    IN  SubSeq(url, colon + 1, Len(url))

\* positions of the first mention of each key
FirstOccurrences(ms) ==
    {i \in 1..Len(ms) :
        \A j \in 1..(i - 1) : SchemeLess(ms[j].url) # SchemeLess(ms[i].url)}

\* the k-th smallest member of a set of positions
Nth(I, k) == CHOOSE i \in I : Cardinality({j \in I : j < i}) = k - 1

\* C2: dedupe returns exactly the subsequence of the first mention of each
\* scheme-less url: no two survivors share a key, every key of the input
\* survives once, as its earliest occurrence, and input order is kept.
C2_DedupeFirstOccurrence ==
    pc = "return" =>
        LET I == FirstOccurrences(mentions)
        IN  /\ Len(filtered) = Cardinality(I)
            /\ \A k \in 1..Len(filtered) : filtered[k] = mentions[Nth(I, k)]
            /\ \A a, b \in 1..Len(filtered) :
                  a # b => SchemeLess(filtered[a].url) # SchemeLess(filtered[b].url)
            /\ {SchemeLess(mentions[i].url) : i \in 1..Len(mentions)}
                  = {SchemeLess(filtered[k].url) : k \in 1..Len(filtered)}

\* C2 witness: a call whose argument repeats a key under both schemes, with
\* another key in between, has returned the two first occurrences
C2_Witness ==
    /\ pc = "return"
    /\ Len(mentions) = 3
    /\ mentions[1].url = UrlHttpP
    /\ mentions[2].url = UrlHttpsQ
    /\ mentions[3].url = UrlHttpsP
    /\ filtered = <<mentions[1], mentions[2]>>

\* the request failed in one of the three ways of the error taxonomy
FailureKinds ==
    {k \in {"transport", "status", "json"} :
        \/ k = "transport" /\ response.kind = "error"
        \/ k = "status" /\ response.kind = "http" /\ ~StatusOk(response.status)
        \/ k = "json" /\ response.kind = "http" /\ StatusOk(response.status)
                      /\ ~response.valid}

\* C3: once the request has failed (rejected fetch, non-2xx status, body that
\* is not JSON) the container keeps the host page's content in every later
\* state, and as soon as the handlers have run the failure is in the log.
C3_FailureLeavesContainer ==
    FailureKinds # {} =>
        /\ container = OriginalContent
        /\ writes = 0
        /\ pc # "settled" => Len(log) > 0

\* C3 witness: a response with a malformed body has been handled to the end
C3_Witness ==
    /\ FailureKinds = {"json"}
    /\ pc = "done"
    /\ Len(log) > 0
    /\ container = OriginalContent

\* C4: on a request failure nothing leaves the load handler (no exception, no
\* rejected promise) and no second request is issued.
C4_FailureStaysLocal ==
    FailureKinds # {} => (~escaped /\ requests <= 1)

\* C5: a page load with the container present issues exactly one request:
\* never more than one at any time, and one by the time the pipeline ends.
C5_ExactlyOneRequest ==
    hasContainer => (requests <= 1 /\ (pc = "done" => requests = 1))

\* the markup the two sections make up once both have been formatted
FinalMarkup ==
    (IF Len(comments) > 0 /\ ~Aliased
        THEN formatComments(dedupe(comments)) ELSE <<>>)
    \o (IF Len(collects) > 0 THEN formatReactions(dedupe(collects)) ELSE <<>>)

\* C6: the container is assigned at most once, and holds either what the host
\* page gave it or, with the pipeline at its end, the complete markup of both
\* sections; no state shows a partial render.
C6_SingleFullWrite ==
    /\ writes <= 1
    /\ \/ writes = 0 /\ container \in {OriginalContent, NoElement}
       \/ writes = 1 /\ pc = "done" /\ container = FinalMarkup

\* C6 witness: both sections were rendered and written in one assignment
C6_Witness ==
    /\ pc = "done"
    /\ writes = 1
    /\ Len(comments) > 0 /\ Len(collects) > 0 /\ ~Aliased
    /\ container = FinalMarkup
    /\ \E i \in 1..Len(container) : container[i].text = "Responses"
    /\ \E i \in 1..Len(container) : container[i].text = "Reactions"

\* the "Responses" heading is in the markup
HasHeading(markup, text) ==
    \E i \in 1..Len(markup) : markup[i].tag = "h2" /\ markup[i].text = text

\* the reaction markers of the Reactions list
Markers(markup) ==
    SelectSeq(markup, LAMBDA t : t.tag = "a" /\ t.class = "reaction")

NumKeys(ms) == Cardinality({SchemeLess(ms[i].url) : i \in 1..Len(ms)})

\* C7: with the merge flag set both bucket names denote one sequence, which
\* holds every comment-type and every reaction-type mention of the response
\* once, in API order; the Responses section is skipped and the output holds
\* one marker per surviving mention.
C7_MergedBucket ==
    (ClassifyDone /\ Aliased) =>
        /\ comments = collects
        /\ collects = OfType(json.children, CommentTypes \cup ReactionTypes)
        /\ Written =>
              /\ ~HasHeading(container, "Responses")
              /\ Len(Markers(container)) = NumKeys(collects)

\* the elements of a markup without the closing tags: <<tag, class>>, and
\* <<"h2", text>> for a heading
Shape(markup) ==
    LET open == SelectSeq(markup, LAMBDA t : t.tag \notin {"/ul", "/li"})
    IN  [i \in 1..Len(open) |->
            IF open[i].tag = "h2" THEN <<"h2", open[i].text>>
            ELSE <<open[i].tag, open[i].class>>]

RECURSIVE Repeat(_, _)
Repeat(seq, n) == IF n = 0 THEN <<>> ELSE seq \o Repeat(seq, n - 1)

ResponsesShape(n) ==
    << <<"h2", "Responses">>, <<"ul", "comments">> >>
    \o Repeat(<< <<"li", "">>, <<"a", "reaction">>, <<"a", "source">>,
                 <<"span", "name">> >>, n)

ReactionsShape(n) ==
    << <<"h2", "Reactions">>, <<"ul", "reacts">> >>
    \o Repeat(<< <<"a", "reaction">> >>, n)

\* C8 as stated: the output is the Responses block then the Reactions block,
\* each present exactly when its bucket is non-empty; an empty children array
\* writes the empty string.
C8_BlockIffBucket ==
    Written =>
        /\ Shape(container) =
              (IF Len(comments) > 0 THEN ResponsesShape(NumKeys(comments)) ELSE <<>>)
              \o (IF Len(collects) > 0 THEN ReactionsShape(NumKeys(collects)) ELSE <<>>)
        /\ json.children = <<>> => container = <<>>

\* C8 amended: the output is the Responses block then the Reactions block; the
\* Reactions block is present exactly when the reactions bucket is non-empty,
\* the Responses block exactly when the comments bucket is non-empty and the
\* merge flag is unset; an empty children array writes the empty string.
C8_BlockIffBucketUnlessMerged ==
    Written =>
        /\ Shape(container) =
              (IF Len(comments) > 0 /\ ~Truthy(getCfg("comments-are-reactions", Undefined))
                  THEN ResponsesShape(NumKeys(comments)) ELSE <<>>)
              \o (IF Len(collects) > 0 THEN ReactionsShape(NumKeys(collects)) ELSE <<>>)
        /\ json.children = <<>> => container = <<>>

\* C8 witness: merge flag unset, both buckets filled, both blocks written in
\* the fixed order
C8_Witness ==
    /\ Written
    /\ scriptAttrs["comments-are-reactions"] = Absent
    /\ Len(comments) = 1 /\ Len(collects) = 1
    /\ Shape(container) = ResponsesShape(1) \o ReactionsShape(1)

\* C9: without the container element the listener returns at once: no request
\* goes out, nothing is written or logged, nothing is thrown.
C9_NoContainerNoOp ==
    ~hasContainer =>
        /\ requests = 0
        /\ writes = 0
        /\ container = NoElement
        /\ log = <<>>
        /\ ~escaped
        /\ pc \in {"load", "done"}

\* C9 witness: the load event has been handled on a page without container
C9_Witness == ~hasContainer /\ pc = "done" /\ requests = 0

\* the href attributes of a markup, in document order
Hrefs(markup) ==
    LET links == SelectSeq(markup, LAMBDA t : t.tag = "a")
    IN  [i \in 1..Len(links) |-> links[i].href]

\* the link target the configuration asks for
ConfiguredTarget(m) ==
    IF scriptAttrs["prevent-spoofing"] \notin {Absent, ""} THEN m.wmSource ELSE m.url

RECURSIVE CommentTargets(_)
CommentTargets(cs) ==
    IF cs = <<>> THEN <<>>
    ELSE <<ConfiguredTarget(Head(cs)), ConfiguredTarget(Head(cs))>>
         \o CommentTargets(Tail(cs))

\* C10: every href written for a mention (the reaction marker, and the source
\* link of a comment) is the mention's wm-source when prevent-spoofing is a
\* non-empty value, and the mention's url when it is unset or empty.
C10_LinkTarget ==
    Written =>
        Hrefs(container) =
            (IF Len(comments) > 0 /\ ~Aliased
                THEN CommentTargets(dedupe(comments)) ELSE <<>>)
            \o [i \in 1..Len(dedupe(collects)) |-> ConfiguredTarget(dedupe(collects)[i])]

\* C10 witness: prevent-spoofing="true", a comment and a reaction written with
\* wm-source links
C10_Witness ==
    /\ Written
    /\ scriptAttrs["prevent-spoofing"] = "true"
    /\ Len(comments) = 1 /\ Len(collects) = 1 /\ ~Aliased
    /\ Hrefs(container) = <<comments[1].wmSource, comments[1].wmSource,
                            collects[1].wmSource>>

\* the query parameters of a URL, in order
Params(url) == split(substr(url, indexOf(url, <<"?">>) + 1), "&")

ParamName(p) == SubSeq(p, 1, indexOf(p, <<"=">>))

\* the configured URLs: the page URL, then the entries of add-urls
ConfiguredUrls ==
    <<refurl>> \o (IF addurls = <<>> THEN <<>> ELSE split(addurls, "|"))

RECURSIVE ExpectedTargets(_)
ExpectedTargets(us) ==
    IF us = <<>> THEN <<>>
    ELSE << <<"t", "a", "r", "g", "e", "t", "[", "]", "=">> \o encodeURIComponent(<<"h", "t", "t", "p", ":">> \o SchemeLess(Head(us))),
            <<"t", "a", "r", "g", "e", "t", "[", "]", "=">> \o encodeURIComponent(<<"h", "t", "t", "p", "s", ":">> \o SchemeLess(Head(us))) >>
         \o ExpectedTargets(Tail(us))

\* C11: the request URL carries per-page, sort-by and sort-dir and then, for
\* the page URL and each add-urls entry in order, exactly two target[]
\* parameters, the http: and then the https: variant of the schemeless form:
\* 2*(k+1) target[] parameters for k additional URLs
C11_RequestURL ==
    apiURL # <<>> =>
        LET ps == Params(apiURL)
            k  == Len(ConfiguredUrls) - 1
        IN  /\ ps = << <<"p", "e", "r", "-", "p", "a", "g", "e", "=">> \o maxWebmentions,
                       <<"s", "o", "r", "t", "-", "b", "y", "=">> \o sortBy,
                       <<"s", "o", "r", "t", "-", "d", "i", "r", "=">> \o sortDir >>
                    \o ExpectedTargets(ConfiguredUrls)
            /\ Cardinality({i \in 1..Len(ps) : ParamName(ps[i]) = <<"t", "a", "r", "g", "e", "t", "[", "]">>})
                   = 2 * (k + 1)

\* a request URL for an https page with two additional URLs, one of them
\* http and one with a query string
C11_Witness ==
    /\ apiURL # <<>>
    /\ textAttrs["page-url"] = UrlHttpsQ
    /\ textAttrs["add-urls"] = join(<<UrlHttpP, UrlQuery>>, "|")

\* C12: for any API response, the number of mention items written into the
\* container does not exceed the configured max-webmentions (default 30)
C12_AtMostMaxWebmentions ==
    Written => Len(Markers(container)) <= ToNumber(maxWebmentions)

\* the words of a text: what lies between its runs of white space
RECURSIVE WordsFrom(_, _)
WordsFrom(s, word) ==
    IF s = <<>> THEN <<word>>
    ELSE IF IsSpace(Head(s)) THEN <<word>> \o WordsFrom(skipSpaces(s), <<>>)
    ELSE WordsFrom(Tail(s), Append(word, Head(s)))

Words(s) == WordsFrom(s, <<>>)

\* C13: for a wordcount n >= 1 the text returned has at most n words; a text
\* of more than n words comes back as its first n words joined by single
\* spaces, with the ellipsis marker on the n-th; with wordcount unset the
\* text comes back neither truncated nor collapsed
C13_Truncation ==
    pc = "return" =>
        LET n   == ToNumber(textAttrs["wordcount"])
            src == entities(contentText)
            ws  == Words(src)
        IN  /\ textAttrs["wordcount"] = <<>> => extracted = src
            /\ n >= 1 =>
                  /\ Len(Words(extracted)) <= n
                  /\ Len(ws) > n =>
                        extracted = join(SubSeq(ws, 1, n - 1) \o <<ws[n] \o Hellip>>, " ")
                  /\ Len(ws) <= n => extracted = src

\* the documented scenario: wordcount 3 and "one two three four five"
C13_Witness ==
    /\ pc = "return"
    /\ textAttrs["wordcount"] = <<"3">>
    /\ contentText = ExampleText
    /\ extracted = <<"o", "n", "e", " ", "t", "w", "o", " ", "t", "h", "r", "e", "e", "&", "h", "e", "l", "l", "i", "p", ";">>

\* C14: dedupe is idempotent, dedupe(dedupe(xs)) = dedupe(xs) for every
\* sequence of mentions xs, and no call changes the sequence it is given
C14_DedupeIdempotent ==
    /\ [](pc = "returnTwice" => filteredTwice = filtered)
    /\ [][mentions' = mentions /\ (pc = "return" => filtered' = filtered)]_vars

\* both calls have returned for an argument that held a duplicate among
\* three keys' worth of mentions
C14_Witness ==
    /\ pc = "returnTwice"
    /\ Len(mentions) = 3
    /\ Len(filtered) = 2

\* the API answered with a 2xx status and a JSON document holding children
AnsweredOk ==
    /\ response.kind = "http"
    /\ StatusOk(response.status)
    /\ response.valid
    /\ response.json.hasChildren

\* C15: with the container present and an API that answers 2xx with a valid
\* document holding a children array, a run of the load listener does not end
\* before the container has been overwritten, whether window.fetch is
\* defined (the answer has arrived) or not (no other answer has arrived)
C15_EventuallyWritten ==
    (hasContainer /\ pc = "done" /\ (AnsweredOk \/ response = NoResponse))
        => Written

\* the characters entities replaces, but for the ampersand it also produces
Unsafe == {"<", ">", "\""}

Clean(str) == \A i \in 1..Len(str) : str[i] \notin Unsafe

\* C16: every string taken from a mention (author name and photo, host of
\* the url, name, content text, link target) has gone through entities
\* before it is part of the markup written to the container: none of them
\* shows a character that entities replaces
C16_Escaped ==
    Written =>
        \A i \in 1..Len(container) :
            /\ Clean(container[i].href)
            /\ Clean(container[i].who)
            /\ Clean(container[i].body)
            /\ Clean(container[i].src)

\* the first mention of each scheme-less url, in order
FirstMentions(ms) ==
    LET I == FirstOccurrences(ms)
    IN  [k \in 1..Cardinality(I) |-> ms[Nth(I, k)]]

\* the mentions a written container shows: the first mention of each
\* scheme-less url of each bucket, or of the one bucket with the merge flag set
Shown ==
    IF Aliased THEN FirstMentions(collects)
    ELSE FirstMentions(comments) \o FirstMentions(collects)

\* the first mention of each scheme-less url among the comment- and
\* reaction-type mentions of the response
FirstOfResponse ==
    LET first == FirstMentions(OfType(json.children, CommentTypes \cup ReactionTypes))
    IN  {first[i] : i \in 1..Len(first)}

\* C17: deduplication runs per bucket after classification: each section of
\* the written output shows the first mention of every scheme-less url of
\* its bucket and no url twice, so with the merge flag unset a url may show
\* once per section; with it set a url shows once in the whole output, as
\* its first occurrence in API order whatever its type
C17_DedupePerBucket ==
    Written =>
        /\ Len(Markers(container)) = Len(Shown)
        /\ \A i \in 1..Len(Shown) :
              Markers(container)[i] = reactImage(Shown[i], FALSE)
        /\ Aliased => \A i \in 1..Len(Shown) : Shown[i] \in FirstOfResponse

====
